---- MODULE Spec2Model ----
(***************************************************************************)
(* Keyed-list reconciliation of tachys (view/keyed/keyed_enumerate.rs):    *)
(* KeyedEnumerate::build / hydrate / rebuild, KeyedEnumerateState::mount   *)
(* and apply_diff, as a state machine.  One reconciliation pass is cut     *)
(* into the commands apply_diff executes (one removal, one move-out, one   *)
(* move-in, one addition per step).                                        *)
(*                                                                         *)
(* Indices are kept 0-based as in the source: the commands and the index   *)
(* bindings hold 0-based positions, and Get/Put translate to TLA+'s        *)
(* 1-based sequences.                                                      *)
(*                                                                         *)
(* super::diff (diff, unpack_moves, VecExt) and the Mountable operations   *)
(* of a child are not part of the files modelled here; they are modelled   *)
(* from the written specification (sections 3, 4.1, 4.2, 4.4).             *)
(***************************************************************************)
EXTENDS Integers, Sequences, FiniteSets, TLC

\* ---------------------------------------------------------------- bounds
\* Keys of the reconciler's state machine are 1..NumKeys.
NumKeys == 3
\* Longest item sequence handed to build / hydrate / rebuild.
MaxLen == 3
\* Number of rebuild passes along one behaviour.
MaxPasses == 2
\* Keys and longest sequence of the inputs the pure diff is applied to.
DiffKeys == 5
DiffMaxLen == 4

VARIABLES
    pc,                 \* position: "new", "idle", a step of apply_diff, "panic"
    parent,             \* KeyedEnumerateState.parent is Some
    hashed_items,       \* KeyedEnumerateState.hashed_items (insertion order)
    rendered_items,     \* KeyedEnumerateState.rendered_items: Seq(Option(child))
    index_items,        \* KeyedEnumerateState.index_items: Seq(Option(binding))
    dom,                \* children of the parent element, in host-tree order
    items,              \* rebuild's local `items`: Seq(Option(item))
    new_hashed_items,   \* rebuild's local `new_hashed_items`
    cmds,               \* the Diff handed to apply_diff
    move_cmds,          \* apply_diff's local `move_cmds`
    add_cmds,           \* apply_diff's local `add_cmds`
    moved_children,     \* apply_diff's local `moved_children`
    moved_index_items,  \* apply_diff's local `moved_index_items`
    ip,                 \* position of the running loop (commands consumed)
    pass,               \* number of rebuild calls so far
    allow_dup,          \* whether the caller hands in item sequences with repeated keys
    old_rendered,       \* history: rendered_items when the pass began
    old_index,          \* history: index_items when the pass began
    prev_new,           \* history: the new key sequence of the pass before this one
    built,              \* history: children returned by view_fn + build in this pass
    host_ops,           \* history: host-tree operations of this pass
    writes,             \* history: ArcWriteSignal::set calls of this pass
    stored,             \* the stored values (StoredValue slots) callbacks keep their function in
    callbacks,          \* the Callback values in existence: originals and their copies
    given,              \* history: the function each Callback::new was given
    last_call           \* history: the latest call, its input and what it returned

vars == <<pc, parent, hashed_items, rendered_items, index_items, dom, items,
          new_hashed_items, cmds, move_cmds, add_cmds, moved_children,
          moved_index_items, ip, pass, allow_dup, old_rendered, old_index,
          prev_new, built, host_ops, writes, stored, callbacks, given, last_call>>

\* The state of the list, and the state of the callbacks, which the
\* operations of the list leave alone.
keyed_vars == <<pc, parent, hashed_items, rendered_items, index_items, dom, items,
                new_hashed_items, cmds, move_cmds, add_cmds, moved_children,
                moved_index_items, ip, pass, allow_dup, old_rendered, old_index,
                prev_new, built, host_ops, writes>>
cb_vars == <<stored, callbacks, given, last_call>>

\* ------------------------------------------------------- Option and Vec
None == <<>>
Some(x) == <<x>>
IsSome(o) == o # <<>>
Unwrap(o) == o[1]

Range(s) == {s[i] : i \in 1..Len(s)}
Get(s, i) == s[i + 1]
Put(s, i, v) == [s EXCEPT ![i + 1] = v]
InBounds(s, i) == i >= 0 /\ i < Len(s)

\* Mutant of ResizeWithNone: the vector grows by one slot too few.
ResizeWithNone_OneShort(s, n) == s \o [j \in 1..(n - 1) |-> None]

\* Vec::resize_with(len + n, || None)
ResizeWithNone(s, n) == s \o [j \in 1..n |-> None]

\* Mutant of DrainFilterNone: the holes are left in place.
DrainFilterNone_Keep(s) == s

\* drain_filter(|c| c.is_none()): the remaining entries, in order
DrainFilterNone(s) == SelectSeq(s, IsSome)

\* ------------------------------------------------------------- children
\* The end-of-list placeholder node.
Marker == [key |-> 0, occ |-> 0, born |-> 0]

\* An input item: its key, and how many items with the same key precede it
\* in the input, which tells the items of one input apart.
Occurrence(its, i) == Cardinality({j \in 1..(i - 1) : its[j] = its[i]})
Items(its) == [i \in 1..Len(its) |-> [key |-> its[i], occ |-> Occurrence(its, i)]]

\* key_fn(&item)
key_fn(item) == item.key

\* view_fn(index, item) followed by build(): a child view state.  It keeps
\* the item it was built from and born, the pass that built it, which
\* together tell instances apart.
NewChild(item, epoch) == [key |-> item.key, occ |-> item.occ, born |-> epoch]

\* Mutant of NewBinding: the cell view_fn returns holds 0, whatever the index.
NewBinding_Unset(child, index) == [id |-> child, val |-> 0]

\* The ArcWriteSignal<usize> view_fn returns with the child, holding `index`.
NewBinding(child, index) == [id |-> child, val |-> index]

\* ArcWriteSignal::set
SetIndex(binding, v) == [binding EXCEPT !.val = v]

\* Mutant of InspectSet: the binding is stored without being written.
InspectSet_NoSet(ob, v) == ob

\* Mutant of InspectSet: the slot gets another cell that holds the index,
\* in place of the cell that came with the child.
InspectSet_Replaces(ob, v) ==
    IF IsSome(ob)
    THEN Some(NewBinding([Unwrap(ob).id EXCEPT !.born = @ + 1], v))
    ELSE None

\* Option::inspect(|item| item.set(to)) on a taken binding
InspectSet(ob, v) == IF IsSome(ob) THEN Some(SetIndex(Unwrap(ob), v)) ELSE None

\* FxIndexSet::insert: a key already present keeps its first position.
InsertKey(s, k) == IF k \in Range(s) THEN s ELSE Append(s, k)

\* The loop `for item in items { hashed.insert(key_fn(&item)) }`
HashAll(its) ==
    LET f[i \in 0..Len(its)] ==
            IF i = 0 THEN <<>> ELSE InsertKey(f[i - 1], key_fn(its[i]))
    IN  f[Len(its)]

\* ------------------------------------------------------------ host tree
\* Mountable::unmount of a child: its nodes leave the host tree.
Unmount(d, n) == SelectSeq(d, LAMBDA x : x # n)

\* Host insert-before: n (taken out first if it is mounted) is put before ref.
InsertBefore(d, n, ref) ==
    LET e == Unmount(d, n)
        p == CHOOSE i \in 1..Len(e) : e[i] = ref
    IN  SubSeq(e, 1, p - 1) \o <<n>> \o SubSeq(e, p, Len(e))

\* Mountable::mount(parent, Some(marker)): before the marker; with the marker
\* itself not in the tree the node is appended to the parent.
MountBeforeMarker(d, n) ==
    IF Marker \in Range(d) THEN InsertBefore(d, n, Marker)
    ELSE Append(Unmount(d, n), n)

\* Mountable::insert_before_this_or_marker(parent, child, marker) on `state`
InsertBeforeThisOrMarker(d, state, n) ==
    IF state \in Range(d) THEN InsertBefore(d, n, state)
    ELSE MountBeforeMarker(d, n)

\* VecExt::get_next_closest_mounted_sibling(start_at): the first filled slot
\* at or after start_at.
GetNextClosestMountedSibling(children, start_at) ==
    LET filled == {j \in start_at..(Len(children) - 1) : IsSome(Get(children, j))}
    IN  IF filled = {} THEN None
        ELSE Get(children, CHOOSE j \in filled : \A k \in filled : j <= k)

\* Unmounting every filled slot in slot order (children.drain(0..))
UnmountAll(d, children) ==
    LET f[i \in 0..Len(children)] ==
            IF i = 0 THEN d
            ELSE IF IsSome(children[i]) THEN Unmount(f[i - 1], Unwrap(children[i]))
            ELSE f[i - 1]
    IN  f[Len(children)]

UnmountAllOps(children) ==
    LET f[i \in 0..Len(children)] ==
            IF i = 0 THEN <<>>
            ELSE IF IsSome(children[i])
                 THEN Append(f[i - 1], [op |-> "unmount", node |-> Unwrap(children[i])])
            ELSE f[i - 1]
    IN  f[Len(children)]

\* ------------------------------------------------ Diff Computer (4.1)
\* Position (0-based) of key k in the key sequence s.
IndexOfKey(s, k) == (CHOOSE i \in 1..Len(s) : s[i] = k) - 1

\* Mutant of DiffClear: the flag is also set when the old sequence is empty.
DiffClear_AnyDisjoint(from, to) == Range(from) \cap Range(to) = {}

\* clear: every old item is discarded and the new set is inserted fresh.
DiffClear(from, to) == from # <<>> /\ Range(from) \cap Range(to) = {}

\* removed: the old positions whose key disappeared, in order.
DiffRemoved(from, to) ==
    LET f[i \in 0..Len(from)] ==
            IF i = 0 THEN <<>>
            ELSE IF from[i] \notin Range(to)
                 THEN Append(f[i - 1], [at |-> i - 1])
            ELSE f[i - 1]
    IN  f[Len(from)]

\* Mutant of DiffMoved: a key present in both sequences is listed as moved
\* even when its position did not change.
DiffMoved_AllCommon(from, to) ==
    LET f[i \in 0..Len(from)] ==
            IF i = 0 THEN <<>>
            ELSE IF from[i] \in Range(to)
                 THEN Append(f[i - 1],
                             [from |-> i - 1, to |-> IndexOfKey(to, from[i])])
            ELSE f[i - 1]
    IN  f[Len(from)]

\* moved: the keys present in both sequences whose position changed,
\* listed by old position.
DiffMoved(from, to) ==
    LET f[i \in 0..Len(from)] ==
            IF i = 0 THEN <<>>
            ELSE IF from[i] \in Range(to) /\ IndexOfKey(to, from[i]) # i - 1
                 THEN Append(f[i - 1],
                             [from |-> i - 1, to |-> IndexOfKey(to, from[i])])
            ELSE f[i - 1]
    IN  f[Len(from)]

\* Mutant of DiffAddMode: every addition takes the cheap path.
DiffAddMode_AlwaysAppend(from, to) == "Append"

\* Insertion mode of the additions: Append when the old sequence is empty or
\* the whole list is replaced, Normal otherwise.
DiffAddMode(from, to) ==
    IF from = <<>> \/ DiffClear(from, to) THEN "Append" ELSE "Normal"

\* added: the new positions whose key is new to this pass, in order.
DiffAdded(from, to) ==
    LET f[i \in 0..Len(to)] ==
            IF i = 0 THEN <<>>
            ELSE IF to[i] \notin Range(from)
                 THEN Append(f[i - 1],
                             [at |-> i - 1, mode |-> DiffAddMode(from, to)])
            ELSE f[i - 1]
    IN  f[Len(to)]

diff(from, to) ==
    [clear   |-> DiffClear(from, to),
     removed |-> DiffRemoved(from, to),
     moved   |-> DiffMoved(from, to),
     added   |-> DiffAdded(from, to)]

EmptyDiff == [clear |-> FALSE, removed |-> <<>>, moved |-> <<>>, added |-> <<>>]

\* ------------------------------------------------ Move Unpacker (4.2)
\* The positions (0-based) whose key is the same in the old and the new
\* sequence: these children are neither removed, moved nor added.
Unchanged(from, to) ==
    {p \in 0..(Len(from) - 1) : p < Len(to) /\ Get(from, p) = Get(to, p)}

\* A moved entry keeps its side of every child that stays where it is.
KeepsSide(from, to, m) ==
    \A p \in Unchanged(from, to) : (m.from < p) <=> (m.to < p)

\* A set of entries of `moved` whose relative order among the still-mounted
\* siblings (each other and the unchanged children) is already the new order.
OrderConsistent(from, to, moved, S) ==
    /\ \A i \in S : KeepsSide(from, to, moved[i])
    /\ \A i \in S : \A j \in S : i < j => moved[i].to < moved[j].to

\* The largest order-consistent subsets of the moved entries.  The written
\* design does not say which of several is taken: each is a possible choice.
KeepChoices(from, to, moved) ==
    {S \in SUBSET (1..Len(moved)) :
        /\ OrderConsistent(from, to, moved, S)
        /\ \A T \in SUBSET (1..Len(moved)) :
              OrderConsistent(from, to, moved, T) => Cardinality(T) <= Cardinality(S)}

\* Mutant of unpack_moves: every move command relocates its child.
unpack_moves_AllPhysical(d, keep) ==
    [moves |-> [i \in 1..Len(d.moved) |->
                   [from |-> d.moved[i].from, to |-> d.moved[i].to,
                    move_in_dom |-> TRUE]],
     adds  |-> d.added]

\* unpack_moves: the move commands in old order, those of `keep` rebinding
\* only (move_in_dom = FALSE), and the additions carried through unchanged.
unpack_moves(d, keep) ==
    [moves |-> [i \in 1..Len(d.moved) |->
                   [from |-> d.moved[i].from, to |-> d.moved[i].to,
                    move_in_dom |-> i \notin keep]],
     adds  |-> d.added]

\* ------------------------------------------------------------- inputs
RECURSIVE SeqsUpTo(_, _)
SeqsUpTo(S, n) ==
    IF n = 0 THEN {<<>>}
    ELSE LET shorter == SeqsUpTo(S, n - 1)
         IN  shorter \cup {Append(s, k) : s \in shorter, k \in S}

NoDup(s) == \A i \in 1..Len(s) : \A j \in 1..Len(s) : s[i] = s[j] => i = j

\* The item sequences a caller hands to build, hydrate and rebuild.
Inputs == {Items(s) : s \in {t \in SeqsUpTo(1..NumKeys, MaxLen) : allow_dup \/ NoDup(t)}}

\* ------------------------------------------- the steps of apply_diff
\* Each operator is one command of apply_diff on the values it reads; ok is
\* FALSE where the source panics (an index out of bounds, unwrap of None),
\* and the fields then hold what had been written before the panic.

\* 1. Clear: index_items.clear(); every child drained and unmounted.
ClearStep(d, children, idx, dm) ==
    IF d.clear
    THEN [index_items |-> <<>>, children |-> <<>>,
          dom |-> UnmountAll(dm, children), ops |-> UnmountAllOps(children),
          return |-> d.added = <<>>]
    ELSE [index_items |-> idx, children |-> children, dom |-> dm, ops |-> <<>>,
          return |-> FALSE]

\* Mutant of RemoveStep: the slot is emptied but the child stays mounted.
RemoveStep_NoUnmount(at, children, idx, dm) ==
    IF ~InBounds(idx, at)
    THEN [ok |-> FALSE, index_items |-> idx, children |-> children,
          dom |-> dm, ops |-> <<>>]
    ELSE IF ~InBounds(children, at) \/ ~IsSome(Get(children, at))
    THEN [ok |-> FALSE, index_items |-> Put(idx, at, None), children |-> children,
          dom |-> dm, ops |-> <<>>]
    ELSE [ok |-> TRUE, index_items |-> Put(idx, at, None),
          children |-> Put(children, at, None), dom |-> dm, ops |-> <<>>]

\* The vector without its entry at (0-based) position i: Vec::remove
Removed(s, i) == SubSeq(s, 1, i) \o SubSeq(s, i + 2, Len(s))

\* Mutant of RemoveStep: the slot is removed from both arrays (Vec::remove)
\* instead of being left as a hole.
RemoveStep_Shifts(at, children, idx, dm) ==
    IF ~InBounds(idx, at) \/ ~InBounds(children, at) \/ ~IsSome(Get(children, at))
    THEN [ok |-> FALSE, index_items |-> idx, children |-> children,
          dom |-> dm, ops |-> <<>>]
    ELSE [ok |-> TRUE, index_items |-> Removed(idx, at),
          children |-> Removed(children, at),
          dom |-> Unmount(dm, Unwrap(Get(children, at))),
          ops |-> <<[op |-> "unmount", node |-> Unwrap(Get(children, at))]>>]

\* Mutant of RemoveStep: the child leaves its slot and the host tree but its
\* binding stays in index_items.
RemoveStep_KeepsBinding(at, children, idx, dm) ==
    IF ~InBounds(idx, at) \/ ~InBounds(children, at) \/ ~IsSome(Get(children, at))
    THEN [ok |-> FALSE, index_items |-> idx, children |-> children,
          dom |-> dm, ops |-> <<>>]
    ELSE [ok |-> TRUE, index_items |-> idx,
          children |-> Put(children, at, None),
          dom |-> Unmount(dm, Unwrap(Get(children, at))),
          ops |-> <<[op |-> "unmount", node |-> Unwrap(Get(children, at))]>>]

\* 2. One removal: index_items[at].take(); children[at].take().unwrap().unmount()
RemoveStep(at, children, idx, dm) ==
    IF ~InBounds(idx, at)
    THEN [ok |-> FALSE, index_items |-> idx, children |-> children,
          dom |-> dm, ops |-> <<>>]
    ELSE IF ~InBounds(children, at) \/ ~IsSome(Get(children, at))
    THEN [ok |-> FALSE, index_items |-> Put(idx, at, None), children |-> children,
          dom |-> dm, ops |-> <<>>]
    ELSE [ok |-> TRUE, index_items |-> Put(idx, at, None),
          children |-> Put(children, at, None),
          dom |-> Unmount(dm, Unwrap(Get(children, at))),
          ops |-> <<[op |-> "unmount", node |-> Unwrap(Get(children, at))]>>]

\* Mutant of MoveOutStep: the child and the binding are pushed but their
\* source slots keep them.
MoveOutStep_NoHole(from, children, idx, mc, mi) ==
    IF ~InBounds(children, from) \/ ~InBounds(idx, from)
    THEN [ok |-> FALSE, children |-> children, index_items |-> idx,
          moved_children |-> mc, moved_index_items |-> mi]
    ELSE [ok |-> TRUE, children |-> children, index_items |-> idx,
          moved_children |-> Append(mc, Get(children, from)),
          moved_index_items |-> Append(mi, Get(idx, from))]

\* 3. One move-out: both slots of `from` are taken and pushed.
MoveOutStep(from, children, idx, mc, mi) ==
    IF ~InBounds(children, from)
    THEN [ok |-> FALSE, children |-> children, index_items |-> idx,
          moved_children |-> mc, moved_index_items |-> mi]
    ELSE IF ~InBounds(idx, from)
    THEN [ok |-> FALSE, children |-> Put(children, from, None), index_items |-> idx,
          moved_children |-> Append(mc, Get(children, from)),
          moved_index_items |-> mi]
    ELSE [ok |-> TRUE, children |-> Put(children, from, None),
          index_items |-> Put(idx, from, None),
          moved_children |-> Append(mc, Get(children, from)),
          moved_index_items |-> Append(mi, Get(idx, from))]

\* The writes of `index_items[to] = moved_index_items[i].take().inspect(set)`
SetWrites(ob, to) ==
    IF IsSome(ob) THEN <<[id |-> Unwrap(ob).id, val |-> to]>> ELSE <<>>

\* Mutant of PlaceBeforeSibling: the sibling lookup is skipped and the child
\* always goes before the marker.
PlaceBeforeSibling_AlwaysAppend(dm, children, at, n) == MountBeforeMarker(dm, n)

\* The host-tree placement shared by a physical move and a Normal addition:
\* before the next filled slot's child, or before the marker.
PlaceBeforeSibling(dm, children, at, n) ==
    LET sib == GetNextClosestMountedSibling(children, at)
    IN  IF IsSome(sib) THEN InsertBeforeThisOrMarker(dm, Unwrap(sib), n)
        ELSE MountBeforeMarker(dm, n)

PlaceOp(children, at, n) ==
    IF IsSome(GetNextClosestMountedSibling(children, at))
    THEN [op |-> "insert", node |-> n]
    ELSE [op |-> "mount", node |-> n]

\* Mutant of MoveInStep: a move with move_in_dom = false relocates the child
\* in the host tree all the same.
MoveInStep_Relocates(j, to, children, idx, mc, mi, dm) ==
    IF ~InBounds(children, to) \/ ~InBounds(idx, to) \/ ~IsSome(mc[j])
    THEN [ok |-> FALSE, children |-> children, index_items |-> idx,
          moved_children |-> mc, moved_index_items |-> mi,
          dom |-> dm, ops |-> <<>>, writes |-> <<>>]
    ELSE [ok |-> TRUE, children |-> Put(children, to, mc[j]),
          index_items |-> Put(idx, to, InspectSet(mi[j], to)),
          moved_children |-> [mc EXCEPT ![j] = None],
          moved_index_items |-> [mi EXCEPT ![j] = None],
          dom |-> PlaceBeforeSibling(dm, children, to, Unwrap(mc[j])),
          ops |-> <<PlaceOp(children, to, Unwrap(mc[j]))>>,
          writes |-> SetWrites(mi[j], to)]

\* The child a mutant puts in place of a moved one: built anew, another instance.
Rebuilt(oc) == IF IsSome(oc) THEN Some([Unwrap(oc) EXCEPT !.born = @ + 1]) ELSE None

\* Mutant of MoveInStep: the moved child is re-created instead of re-used.
MoveInStep_Rebuilt(j, to, children, idx, mc, mi, dm) ==
    IF ~InBounds(children, to) \/ ~InBounds(idx, to)
    THEN [ok |-> FALSE, children |-> children, index_items |-> idx,
          moved_children |-> mc, moved_index_items |-> mi,
          dom |-> dm, ops |-> <<>>, writes |-> <<>>]
    ELSE [ok |-> TRUE, children |-> Put(children, to, Rebuilt(mc[j])),
          index_items |-> Put(idx, to, InspectSet(mi[j], to)),
          moved_children |-> [mc EXCEPT ![j] = None],
          moved_index_items |-> [mi EXCEPT ![j] = None],
          dom |-> dm, ops |-> <<>>, writes |-> SetWrites(mi[j], to)]

\* 5a. One move-in with move_in_dom = false: slot and binding only.
MoveInStep(j, to, children, idx, mc, mi, dm) ==
    IF ~InBounds(children, to)
    THEN [ok |-> FALSE, children |-> children, index_items |-> idx,
          moved_children |-> [mc EXCEPT ![j] = None], moved_index_items |-> mi,
          dom |-> dm, ops |-> <<>>, writes |-> <<>>]
    ELSE IF ~InBounds(idx, to)
    THEN [ok |-> FALSE, children |-> Put(children, to, mc[j]), index_items |-> idx,
          moved_children |-> [mc EXCEPT ![j] = None],
          moved_index_items |-> [mi EXCEPT ![j] = None],
          dom |-> dm, ops |-> <<>>, writes |-> SetWrites(mi[j], to)]
    ELSE [ok |-> TRUE, children |-> Put(children, to, mc[j]),
          index_items |-> Put(idx, to, InspectSet(mi[j], to)),
          moved_children |-> [mc EXCEPT ![j] = None],
          moved_index_items |-> [mi EXCEPT ![j] = None],
          dom |-> dm, ops |-> <<>>, writes |-> SetWrites(mi[j], to)]

\* Mutant of MoveInDomStep: the sibling is looked up from the first slot on
\* instead of from the destination slot on.
MoveInDomStep_FromStart(j, to, children, idx, mc, mi, dm) ==
    IF ~IsSome(mc[j]) \/ ~InBounds(children, to) \/ ~InBounds(idx, to)
    THEN [ok |-> FALSE, children |-> children, index_items |-> idx,
          moved_children |-> mc, moved_index_items |-> mi,
          dom |-> dm, ops |-> <<>>, writes |-> <<>>]
    ELSE [ok |-> TRUE, children |-> Put(children, to, mc[j]),
          index_items |-> Put(idx, to, InspectSet(mi[j], to)),
          moved_children |-> [mc EXCEPT ![j] = None],
          moved_index_items |-> [mi EXCEPT ![j] = None],
          dom |-> PlaceBeforeSibling(dm, children, 0, Unwrap(mc[j])),
          ops |-> <<PlaceOp(children, 0, Unwrap(mc[j]))>>,
          writes |-> SetWrites(mi[j], to)]

\* 5b. One move-in with move_in_dom = true.
MoveInDomStep(j, to, children, idx, mc, mi, dm) ==
    IF ~IsSome(mc[j]) \/ to > Len(children)
    THEN [ok |-> FALSE, children |-> children, index_items |-> idx,
          moved_children |-> mc, moved_index_items |-> mi,
          dom |-> dm, ops |-> <<>>, writes |-> <<>>]
    ELSE IF ~InBounds(children, to)
    THEN [ok |-> FALSE, children |-> children, index_items |-> idx,
          moved_children |-> [mc EXCEPT ![j] = None], moved_index_items |-> mi,
          dom |-> PlaceBeforeSibling(dm, children, to, Unwrap(mc[j])),
          ops |-> <<PlaceOp(children, to, Unwrap(mc[j]))>>, writes |-> <<>>]
    ELSE IF ~InBounds(idx, to)
    THEN [ok |-> FALSE, children |-> Put(children, to, mc[j]), index_items |-> idx,
          moved_children |-> [mc EXCEPT ![j] = None],
          moved_index_items |-> [mi EXCEPT ![j] = None],
          dom |-> PlaceBeforeSibling(dm, children, to, Unwrap(mc[j])),
          ops |-> <<PlaceOp(children, to, Unwrap(mc[j]))>>,
          writes |-> SetWrites(mi[j], to)]
    ELSE [ok |-> TRUE, children |-> Put(children, to, mc[j]),
          index_items |-> Put(idx, to, InspectSet(mi[j], to)),
          moved_children |-> [mc EXCEPT ![j] = None],
          moved_index_items |-> [mi EXCEPT ![j] = None],
          dom |-> PlaceBeforeSibling(dm, children, to, Unwrap(mc[j])),
          ops |-> <<PlaceOp(children, to, Unwrap(mc[j]))>>,
          writes |-> SetWrites(mi[j], to)]

\* The host-tree placement of an addition, by its mode.
AddPlace(mode, dm, children, at, n) ==
    IF mode = "Normal" THEN PlaceBeforeSibling(dm, children, at, n)
    ELSE MountBeforeMarker(dm, n)

AddOp(mode, children, at, n) ==
    IF mode = "Normal" THEN PlaceOp(children, at, n)
    ELSE [op |-> "mount", node |-> n]

\* 6. One addition: items[at].take().unwrap(), view_fn, build, mount, store.
AddStep(at, mode, its, children, idx, dm, epoch) ==
    IF ~InBounds(its, at) \/ ~IsSome(Get(its, at))
    THEN [ok |-> FALSE, items |-> its, children |-> children, index_items |-> idx,
          dom |-> dm, ops |-> <<>>, built |-> <<>>]
    ELSE
      LET n == NewChild(Unwrap(Get(its, at)), epoch)
      IN  IF mode = "Normal" /\ at > Len(children)
          THEN [ok |-> FALSE, items |-> Put(its, at, None), children |-> children,
                index_items |-> idx, dom |-> dm, ops |-> <<>>, built |-> <<n>>]
          ELSE IF ~InBounds(children, at)
          THEN [ok |-> FALSE, items |-> Put(its, at, None), children |-> children,
                index_items |-> idx, dom |-> AddPlace(mode, dm, children, at, n),
                ops |-> <<AddOp(mode, children, at, n)>>, built |-> <<n>>]
          ELSE IF ~InBounds(idx, at)
          THEN [ok |-> FALSE, items |-> Put(its, at, None),
                children |-> Put(children, at, Some(n)),
                index_items |-> idx, dom |-> AddPlace(mode, dm, children, at, n),
                ops |-> <<AddOp(mode, children, at, n)>>, built |-> <<n>>]
          ELSE [ok |-> TRUE, items |-> Put(its, at, None),
                children |-> Put(children, at, Some(n)),
                index_items |-> Put(idx, at, Some(NewBinding(n, at))),
                dom |-> AddPlace(mode, dm, children, at, n),
                ops |-> <<AddOp(mode, children, at, n)>>, built |-> <<n>>]

\* The next move command after position `from_ip` that the filter
\* `move_.move_in_dom == flag` lets through (1-based), or 0.
NextCmd(mcs, from_ip, flag) ==
    LET c == {j \in (from_ip + 1)..Len(mcs) : mcs[j].move_in_dom = flag}
    IN  IF c = {} THEN 0 ELSE CHOOSE j \in c : \A k \in c : j <= k

\* ------------------------------------------------------------ actions
pass_locals == <<items, new_hashed_items, cmds, move_cmds, add_cmds,
                 moved_children, moved_index_items>>
history == <<old_rendered, old_index, prev_new, built, host_ops, writes>>

\* No callback has been created.
NoCallbacks ==
    /\ stored = <<>>
    /\ callbacks = <<>>
    /\ given = <<>>
    /\ last_call = None

InitState(dup) ==
    /\ pc = "new"
    /\ parent = FALSE
    /\ hashed_items = <<>>
    /\ rendered_items = <<>>
    /\ index_items = <<>>
    /\ dom = <<>>
    /\ items = <<>>
    /\ new_hashed_items = <<>>
    /\ cmds = EmptyDiff
    /\ move_cmds = <<>>
    /\ add_cmds = <<>>
    /\ moved_children = <<>>
    /\ moved_index_items = <<>>
    /\ ip = 0
    /\ pass = 0
    /\ allow_dup = dup
    /\ old_rendered = <<>>
    /\ old_index = <<>>
    /\ prev_new = <<>>
    /\ built = <<>>
    /\ host_ops = <<>>
    /\ writes = <<>>
    /\ NoCallbacks

Init == InitState(FALSE)

\* The children and bindings build and hydrate create, one per item.
BuiltChildren(its) == [i \in 1..Len(its) |-> Some(NewChild(its[i], 0))]
BuiltBindings(its) ==
    [i \in 1..Len(its) |-> Some(NewBinding(NewChild(its[i], 0), i - 1))]

\* The host-tree children after mount: every filled slot in order, then the marker.
MountAll(children) ==
    LET filled == DrainFilterNone(children)
    IN  [i \in 1..Len(filled) |-> Unwrap(filled[i])] \o <<Marker>>

\* KeyedEnumerate::build
Build ==
    /\ pc = "new"
    /\ \E its \in Inputs :
          /\ hashed_items' = HashAll(its)
          /\ rendered_items' = BuiltChildren(its)
          /\ index_items' = BuiltBindings(its)
          /\ built' = [i \in 1..Len(its) |-> NewChild(its[i], 0)]
    /\ parent' = FALSE
    /\ pc' = "idle"
    /\ UNCHANGED <<dom, pass_locals, ip, pass, allow_dup, cb_vars, old_rendered, old_index,
                   prev_new, host_ops, writes>>

\* KeyedEnumerate::hydrate
Hydrate ==
    /\ pc = "new"
    /\ \E its \in Inputs :
          /\ hashed_items' = HashAll(its)
          /\ rendered_items' = BuiltChildren(its)
          /\ index_items' = BuiltBindings(its)
          /\ built' = [i \in 1..Len(its) |-> NewChild(its[i], 0)]
          /\ dom' = MountAll(BuiltChildren(its))
    /\ parent' = TRUE
    /\ pc' = "idle"
    /\ UNCHANGED <<pass_locals, ip, pass, allow_dup, cb_vars, old_rendered, old_index,
                   prev_new, host_ops, writes>>

\* KeyedEnumerateState::mount
Mount ==
    /\ pc = "idle"
    /\ ~parent
    /\ parent' = TRUE
    /\ dom' = MountAll(rendered_items)
    /\ UNCHANGED <<pc, hashed_items, rendered_items, index_items, pass_locals, ip,
                   pass, allow_dup, cb_vars, history>>

\* Mutant of RebuildBegin: the parent is not checked and apply_diff runs on a
\* list that was never mounted.
RebuildBegin_NoExpect ==
    /\ pc = "idle"
    /\ pass < MaxPasses
    /\ \E its \in Inputs :
          /\ items' = [i \in 1..Len(its) |-> Some(its[i])]
          /\ new_hashed_items' = HashAll(its)
          /\ cmds' = diff(hashed_items, HashAll(its))
    /\ pc' = "clear"
    /\ pass' = pass + 1
    /\ ip' = 0
    /\ move_cmds' = <<>>
    /\ add_cmds' = <<>>
    /\ moved_children' = <<>>
    /\ moved_index_items' = <<>>
    /\ old_rendered' = rendered_items
    /\ old_index' = index_items
    /\ built' = <<>>
    /\ host_ops' = <<>>
    /\ writes' = <<>>
    /\ UNCHANGED <<parent, hashed_items, rendered_items, index_items, dom, allow_dup,
                   cb_vars, prev_new>>

\* KeyedEnumerate::rebuild up to the call of apply_diff: the new keys are
\* hashed, the diff is computed, and parent.expect(..) panics before apply_diff
\* when the list was never mounted.
RebuildBegin ==
    /\ pc = "idle"
    /\ pass < MaxPasses
    /\ \E its \in Inputs :
          /\ items' = [i \in 1..Len(its) |-> Some(its[i])]
          /\ new_hashed_items' = HashAll(its)
          /\ cmds' = diff(hashed_items, HashAll(its))
    /\ pc' = IF parent THEN "clear" ELSE "panic"
    /\ pass' = pass + 1
    /\ ip' = 0
    /\ move_cmds' = <<>>
    /\ add_cmds' = <<>>
    /\ moved_children' = <<>>
    /\ moved_index_items' = <<>>
    /\ old_rendered' = rendered_items
    /\ old_index' = index_items
    /\ built' = <<>>
    /\ host_ops' = <<>>
    /\ writes' = <<>>
    /\ UNCHANGED <<parent, hashed_items, rendered_items, index_items, dom, allow_dup, cb_vars,
                   prev_new>>

StepClear ==
    /\ pc = "clear"
    /\ LET r == ClearStep(cmds, rendered_items, index_items, dom)
       IN  /\ index_items' = r.index_items
           /\ rendered_items' = r.children
           /\ dom' = r.dom
           /\ host_ops' = host_ops \o r.ops
           /\ pc' = IF r.return THEN "store" ELSE "remove"
    /\ ip' = 0
    /\ UNCHANGED <<parent, hashed_items, pass_locals, pass, allow_dup, cb_vars,
                   old_rendered, old_index, prev_new, built, writes>>

StepRemove ==
    /\ pc = "remove"
    /\ ip < Len(cmds.removed)
    /\ LET r == RemoveStep(cmds.removed[ip + 1].at, rendered_items, index_items, dom)
       IN  /\ index_items' = r.index_items
           /\ rendered_items' = r.children
           /\ dom' = r.dom
           /\ host_ops' = host_ops \o r.ops
           /\ pc' = IF r.ok THEN pc ELSE "panic"
           /\ ip' = IF r.ok THEN ip + 1 ELSE ip
    /\ UNCHANGED <<parent, hashed_items, pass_locals, pass, allow_dup, cb_vars,
                   old_rendered, old_index, prev_new, built, writes>>

\* let (move_cmds, add_cmds) = unpack_moves(&diff)
StepUnpack ==
    /\ pc = "remove"
    /\ ip = Len(cmds.removed)
    /\ \E keep \in KeepChoices(hashed_items, new_hashed_items, cmds.moved) :
          /\ move_cmds' = unpack_moves(cmds, keep).moves
          /\ add_cmds' = unpack_moves(cmds, keep).adds
    /\ moved_children' = <<>>
    /\ moved_index_items' = <<>>
    /\ pc' = "move_out"
    /\ ip' = 0
    /\ UNCHANGED <<parent, hashed_items, rendered_items, index_items, dom, items,
                   new_hashed_items, cmds, pass, allow_dup, cb_vars, history>>

StepMoveOut ==
    /\ pc = "move_out"
    /\ ip < Len(move_cmds)
    /\ LET r == MoveOutStep(move_cmds[ip + 1].from, rendered_items, index_items,
                            moved_children, moved_index_items)
       IN  /\ rendered_items' = r.children
           /\ index_items' = r.index_items
           /\ moved_children' = r.moved_children
           /\ moved_index_items' = r.moved_index_items
           /\ pc' = IF r.ok THEN pc ELSE "panic"
           /\ ip' = IF r.ok THEN ip + 1 ELSE ip
    /\ UNCHANGED <<parent, hashed_items, dom, items, new_hashed_items, cmds,
                   move_cmds, add_cmds, pass, allow_dup, cb_vars, history>>

\* 4. Resize: both arrays grow by the number of additions.
StepResize ==
    /\ pc = "move_out"
    /\ ip = Len(move_cmds)
    /\ rendered_items' = ResizeWithNone(rendered_items, Len(cmds.added))
    /\ index_items' = ResizeWithNone(index_items, Len(cmds.added))
    /\ pc' = "move_in"
    /\ ip' = 0
    /\ UNCHANGED <<parent, hashed_items, dom, pass_locals, pass, allow_dup, cb_vars, history>>

StepMoveIn ==
    /\ pc = "move_in"
    /\ NextCmd(move_cmds, ip, FALSE) # 0
    /\ LET j == NextCmd(move_cmds, ip, FALSE)
           r == MoveInStep(j, move_cmds[j].to, rendered_items, index_items,
                           moved_children, moved_index_items, dom)
       IN  /\ rendered_items' = r.children
           /\ index_items' = r.index_items
           /\ moved_children' = r.moved_children
           /\ moved_index_items' = r.moved_index_items
           /\ dom' = r.dom
           /\ host_ops' = host_ops \o r.ops
           /\ writes' = writes \o r.writes
           /\ pc' = IF r.ok THEN pc ELSE "panic"
           /\ ip' = IF r.ok THEN j ELSE ip
    /\ UNCHANGED <<parent, hashed_items, items, new_hashed_items, cmds, move_cmds,
                   add_cmds, pass, allow_dup, cb_vars, old_rendered, old_index, prev_new, built>>

\* The first move-in loop is exhausted: the second one starts.
StepMoveInDone ==
    /\ pc = "move_in"
    /\ NextCmd(move_cmds, ip, FALSE) = 0
    /\ pc' = "move_in_dom"
    /\ ip' = 0
    /\ UNCHANGED <<parent, hashed_items, rendered_items, index_items, dom,
                   pass_locals, pass, allow_dup, cb_vars, history>>

StepMoveInDom ==
    /\ pc = "move_in_dom"
    /\ NextCmd(move_cmds, ip, TRUE) # 0
    /\ LET j == NextCmd(move_cmds, ip, TRUE)
           r == MoveInDomStep(j, move_cmds[j].to, rendered_items, index_items,
                              moved_children, moved_index_items, dom)
       IN  /\ rendered_items' = r.children
           /\ index_items' = r.index_items
           /\ moved_children' = r.moved_children
           /\ moved_index_items' = r.moved_index_items
           /\ dom' = r.dom
           /\ host_ops' = host_ops \o r.ops
           /\ writes' = writes \o r.writes
           /\ pc' = IF r.ok THEN pc ELSE "panic"
           /\ ip' = IF r.ok THEN j ELSE ip
    /\ UNCHANGED <<parent, hashed_items, items, new_hashed_items, cmds, move_cmds,
                   add_cmds, pass, allow_dup, cb_vars, old_rendered, old_index, prev_new, built>>

\* The second move-in loop is exhausted: the additions start.
StepMoveInDomDone ==
    /\ pc = "move_in_dom"
    /\ NextCmd(move_cmds, ip, TRUE) = 0
    /\ pc' = "add"
    /\ ip' = 0
    /\ UNCHANGED <<parent, hashed_items, rendered_items, index_items, dom,
                   pass_locals, pass, allow_dup, cb_vars, history>>

StepAdd ==
    /\ pc = "add"
    /\ ip < Len(add_cmds)
    /\ LET r == AddStep(add_cmds[ip + 1].at, add_cmds[ip + 1].mode, items,
                        rendered_items, index_items, dom, pass)
       IN  /\ items' = r.items
           /\ rendered_items' = r.children
           /\ index_items' = r.index_items
           /\ dom' = r.dom
           /\ host_ops' = host_ops \o r.ops
           /\ built' = built \o r.built
           /\ pc' = IF r.ok THEN pc ELSE "panic"
           /\ ip' = IF r.ok THEN ip + 1 ELSE ip
    /\ UNCHANGED <<parent, hashed_items, new_hashed_items, cmds, move_cmds,
                   add_cmds, moved_children, moved_index_items, pass, allow_dup, cb_vars,
                   old_rendered, old_index, prev_new, writes>>

\* 7. Prune: both arrays are compacted; apply_diff returns.
StepPrune ==
    /\ pc = "add"
    /\ ip = Len(add_cmds)
    /\ rendered_items' = DrainFilterNone(rendered_items)
    /\ index_items' = DrainFilterNone(index_items)
    /\ pc' = "store"
    /\ UNCHANGED <<parent, hashed_items, dom, pass_locals, ip, pass, allow_dup, cb_vars,
                   history>>

\* What rebuild leaves behind when it returns: its locals and those of
\* apply_diff are dropped; the history keeps the key sequence it was given.
Returned ==
    /\ pc' = "idle"
    /\ prev_new' = new_hashed_items
    /\ items' = <<>>
    /\ new_hashed_items' = <<>>
    /\ cmds' = EmptyDiff
    /\ move_cmds' = <<>>
    /\ add_cmds' = <<>>
    /\ moved_children' = <<>>
    /\ moved_index_items' = <<>>
    /\ ip' = 0
    /\ old_rendered' = <<>>
    /\ old_index' = <<>>
    /\ built' = <<>>
    /\ host_ops' = <<>>
    /\ writes' = <<>>
    /\ UNCHANGED <<parent, rendered_items, index_items, dom, pass, allow_dup, cb_vars>>

\* Mutant of StepStore: the new key sequence is not stored as the baseline.
StepStore_Forget ==
    /\ pc = "store"
    /\ hashed_items' = hashed_items
    /\ Returned

\* rebuild's last statement: *hashed_items = new_hashed_items
StepStore ==
    /\ pc = "store"
    /\ hashed_items' = new_hashed_items
    /\ Returned

Next ==
    \/ Build
    \/ Hydrate
    \/ Mount
    \/ RebuildBegin
    \/ StepClear
    \/ StepRemove
    \/ StepUnpack
    \/ StepMoveOut
    \/ StepResize
    \/ StepMoveIn
    \/ StepMoveInDone
    \/ StepMoveInDom
    \/ StepMoveInDomDone
    \/ StepAdd
    \/ StepPrune
    \/ StepStore

Spec == Init /\ [][Next]_vars


\* ------------------------------------- diff and unpack_moves on their own
\* The old key sequences diff is applied to.  Keys are opaque and only
\* compared for equality, so every duplicate-free old sequence is a renaming
\* of 1..n; the new sequence ranges over all duplicate-free sequences.
DiffOldInputs == {[i \in 1..n |-> i] : n \in 0..DiffMaxLen}
DiffNewInputs == {s \in SeqsUpTo(1..DiffKeys, DiffMaxLen) : NoDup(s)}

InitDiff ==
    /\ pc = "diff_ready"
    /\ parent = TRUE
    /\ hashed_items \in DiffOldInputs
    /\ new_hashed_items \in DiffNewInputs
    /\ rendered_items = <<>>
    /\ index_items = <<>>
    /\ dom = <<>>
    /\ items = <<>>
    /\ cmds = EmptyDiff
    /\ move_cmds = <<>>
    /\ add_cmds = <<>>
    /\ moved_children = <<>>
    /\ moved_index_items = <<>>
    /\ ip = 0
    /\ pass = 0
    /\ allow_dup = FALSE
    /\ old_rendered = <<>>
    /\ old_index = <<>>
    /\ prev_new = <<>>
    /\ built = <<>>
    /\ host_ops = <<>>
    /\ writes = <<>>
    /\ NoCallbacks

\* let cmds = diff(hashed_items, &new_hashed_items)
DiffCall ==
    /\ pc = "diff_ready"
    /\ cmds' = diff(hashed_items, new_hashed_items)
    /\ pc' = "diff_done"
    /\ UNCHANGED <<parent, hashed_items, rendered_items, index_items, dom, items,
                   new_hashed_items, move_cmds, add_cmds, moved_children,
                   moved_index_items, ip, pass, allow_dup, cb_vars, history>>

\* let (move_cmds, add_cmds) = unpack_moves(&diff)
UnpackCall ==
    /\ pc = "diff_done"
    /\ \E keep \in KeepChoices(hashed_items, new_hashed_items, cmds.moved) :
          /\ move_cmds' = unpack_moves(cmds, keep).moves
          /\ add_cmds' = unpack_moves(cmds, keep).adds
    /\ pc' = "unpack_done"
    /\ UNCHANGED <<parent, hashed_items, rendered_items, index_items, dom, items,
                   new_hashed_items, cmds, moved_children, moved_index_items, ip,
                   pass, allow_dup, cb_vars, history>>

NextDiff ==
    \/ DiffCall
    \/ UnpackCall

SpecDiff == InitDiff /\ [][NextDiff]_vars

\* ==================================================================
\* Properties of a reconciliation pass
\* ==================================================================
\* The positions of a pass, from the call of apply_diff to its return.
InPass == {"clear", "remove", "move_out", "move_in", "move_in_dom", "add", "store"}
\* The positions at which move_cmds and add_cmds have been unpacked.
AfterUnpack == {"move_out", "move_in", "move_in_dom", "add", "store"}

\* The list's children in the host tree, in host-tree order, and their keys.
DomChildren == SelectSeq(dom, LAMBDA n : n # Marker)
DomKeys == [i \in 1..Len(DomChildren) |-> DomChildren[i].key]

\* The children a slot array holds for key k.
ChildrenOf(slots, k) ==
    {Unwrap(slots[i]) : i \in {j \in 1..Len(slots) : IsSome(slots[j]) /\ Unwrap(slots[j]).key = k}}

PhysicalMoves == {j \in 1..Len(move_cmds) : move_cmds[j].move_in_dom}
LogicalMoves == {j \in 1..Len(move_cmds) : ~move_cmds[j].move_in_dom}

\* C1 (order fidelity): when apply_diff has returned from a pass on a mounted
\* list, the list's children stand in the host tree in the order of the new
\* key sequence; and so they do between passes, after any number of passes.
C1_OrderFidelity ==
    /\ pc = "store" => DomKeys = new_hashed_items
    /\ (pc = "idle" /\ pass >= 1) => DomKeys = hashed_items

\* C1 witness: a second pass that relocated a child and added one has returned.
C1_Witness ==
    /\ pc = "store"
    /\ pass = 2
    /\ PhysicalMoves # {}
    /\ cmds.added # <<>>

\* C2 (key conservation): when apply_diff has returned, every key of the new
\* sequence has exactly one child in rendered_items, and no child of a key
\* that was in the old sequence and is not in the new one is left in
\* rendered_items or in the host tree.
C2_KeyConservation ==
    pc = "store" =>
        /\ \A k \in Range(new_hashed_items) :
              Cardinality({i \in 1..Len(rendered_items) :
                              IsSome(rendered_items[i])
                              /\ Unwrap(rendered_items[i]).key = k}) = 1
        /\ \A k \in Range(hashed_items) \ Range(new_hashed_items) :
              /\ ChildrenOf(rendered_items, k) = {}
              /\ \A i \in 1..Len(dom) : dom[i].key # k

\* C2 witness: a pass that removed a key and added another has returned.
C2_Witness ==
    /\ pc = "store"
    /\ cmds.removed # <<>>
    /\ cmds.added # <<>>
    /\ cmds.moved # <<>>

\* C3 (index correctness): when apply_diff has returned, slot i holds a child
\* and a binding, the binding is the one of that child, its value is i, and
\* the child's key is the key at position i of the new sequence.
C3_IndexCorrectness ==
    pc = "store" =>
        /\ Len(index_items) = Len(rendered_items)
        /\ Len(rendered_items) = Len(new_hashed_items)
        /\ \A i \in 1..Len(rendered_items) :
              /\ IsSome(rendered_items[i])
              /\ IsSome(index_items[i])
              /\ Unwrap(index_items[i]).id = Unwrap(rendered_items[i])
              /\ Unwrap(index_items[i]).val = i - 1
              /\ Unwrap(rendered_items[i]).key = new_hashed_items[i]

\* C3 witness: a pass with a rebound child, a relocated child and a new child
\* has returned.
C3_Witness ==
    /\ pc = "store"
    /\ LogicalMoves # {}
    /\ PhysicalMoves # {}
    /\ cmds.added # <<>>

\* C4 (no re-creation): during a pass the builder is never called for a key
\* of the old sequence; when apply_diff has returned it has been called
\* exactly once for each key that is new, and the child stored for a
\* surviving key is the instance that was stored for it before the pass.
C4_NoRecreation ==
    /\ pc \in InPass =>
          \A i \in 1..Len(built) : built[i].key \notin Range(hashed_items)
    /\ pc = "store" =>
          /\ \A k \in Range(new_hashed_items) \ Range(hashed_items) :
                Cardinality({i \in 1..Len(built) : built[i].key = k}) = 1
          /\ Len(built) = Cardinality(Range(new_hashed_items) \ Range(hashed_items))
          /\ \A k \in Range(new_hashed_items) \cap Range(hashed_items) :
                /\ ChildrenOf(old_rendered, k) # {}
                /\ ChildrenOf(rendered_items, k) = ChildrenOf(old_rendered, k)

\* C4 witness: a pass in which one key survived by a move and another was
\* built has returned.
C4_Witness ==
    /\ pc = "store"
    /\ cmds.moved # <<>>
    /\ built # <<>>
    /\ Len(new_hashed_items) > Len(built) + Len(cmds.moved)

\* C5 (no-op pass): a pass whose new key sequence is the one of the pass
\* before it has an edit script with nothing removed, moved or added, makes
\* no host-tree operation, builds nothing, writes no binding and leaves both
\* slot arrays as they were.
C5_NoOpPass ==
    (pc \in InPass /\ pass >= 2 /\ new_hashed_items = prev_new) =>
        /\ cmds.removed = <<>>
        /\ cmds.moved = <<>>
        /\ cmds.added = <<>>
        /\ host_ops = <<>>
        /\ built = <<>>
        /\ writes = <<>>
        /\ rendered_items = old_rendered
        /\ index_items = old_index

\* C5 witness: the second of two passes with the same three keys, the first
\* of which changed the list, has returned.
C5_Witness ==
    /\ pc = "store"
    /\ pass = 2
    /\ new_hashed_items = prev_new
    /\ Len(new_hashed_items) = 3
    /\ \E i \in 1..Len(rendered_items) : Unwrap(rendered_items[i]).born = 1

\* C7 (logical move): a move command with move_in_dom = false makes no
\* host-tree operation on its child; when apply_diff has returned the child
\* is in its destination slot and its binding has been written the new index.
\* For old = [a,b,c], new = [c,a,b]: nothing removed, nothing added, one
\* host-tree operation, on c, and a and b rebound to 1 and 2.
C7_LogicalMove ==
    /\ pc \in AfterUnpack =>
          \A j \in LogicalMoves :
             \A o \in 1..Len(host_ops) :
                Some(host_ops[o].node) # old_rendered[move_cmds[j].from + 1]
    /\ pc = "store" =>
          \A j \in LogicalMoves :
             /\ rendered_items[move_cmds[j].to + 1] = old_rendered[move_cmds[j].from + 1]
             /\ index_items[move_cmds[j].to + 1]
                   = InspectSet(old_index[move_cmds[j].from + 1], move_cmds[j].to)
             /\ \E w \in 1..Len(writes) :
                   /\ Some(writes[w].id) = old_rendered[move_cmds[j].from + 1]
                   /\ writes[w].val = move_cmds[j].to
    /\ (pc = "store" /\ hashed_items = <<1, 2, 3>> /\ new_hashed_items = <<3, 1, 2>>) =>
          /\ cmds.removed = <<>>
          /\ cmds.added = <<>>
          /\ Len(host_ops) = 1
          /\ host_ops[1].node.key = 3
          /\ [k \in 1..Len(writes) |-> <<writes[k].id.key, writes[k].val>>]
                = << <<1, 1>>, <<2, 2>>, <<3, 0>> >>

\* C7 witness: the pass from [a,b,c] to [c,a,b] has returned.
C7_Witness ==
    /\ pc = "store"
    /\ hashed_items = <<1, 2, 3>>
    /\ new_hashed_items = <<3, 1, 2>>
    /\ Cardinality(LogicalMoves) = 2

\* C8 (clear fast-path), as claimed: a pass on a mounted list whose edit
\* script has clear set and additions never ends in a panic.
C8_ClearWithAdditionsCompletes ==
    (parent /\ cmds.clear /\ cmds.added # <<>>) => pc # "panic"


\* ==================================================================
\* Properties of diff and unpack_moves
\* ==================================================================
Diffed == pc \in {"diff_done", "unpack_done"}

Max(S) == CHOOSE x \in S : \A y \in S : y <= x

\* Length of the longest increasing subsequence of a sequence of numbers.
LISLen(t) ==
    LET L[i \in 1..Len(t)] ==
            1 + Max({0} \cup {L[j] : j \in {k \in 1..(i - 1) : t[k] < t[i]}})
    IN  Max({0} \cup {L[i] : i \in 1..Len(t)})

MovedTos(moved) == [i \in 1..Len(moved) |-> moved[i].to]

\* A moved entry passes a key that keeps its position.
PassesStayingKey(m) ==
    \E p \in 1..Len(hashed_items) :
        /\ p <= Len(new_hashed_items)
        /\ hashed_items[p] = new_hashed_items[p]
        /\ \/ m.from < p - 1 /\ m.to > p - 1
           \/ m.from > p - 1 /\ m.to < p - 1

NotPassing == SelectSeq(cmds.moved, LAMBDA m : ~PassesStayingKey(m))

\* new is old followed by keys that are not in old
AppendedSuffix ==
    /\ Len(hashed_items) <= Len(new_hashed_items)
    /\ SubSeq(new_hashed_items, 1, Len(hashed_items)) = hashed_items

MixedExample ==
    /\ hashed_items = <<1, 2, 3, 4>>
    /\ new_hashed_items = <<2, 5, 4, 1>>

AllOldRemoved == cmds.removed = [i \in 1..Len(hashed_items) |-> [at |-> i - 1]]
AllNewAdded ==
    [i \in 1..Len(cmds.added) |-> cmds.added[i].at]
        = [i \in 1..Len(new_hashed_items) |-> i - 1]
NoCommonKey == Range(hashed_items) \cap Range(new_hashed_items) = {}

TimesRemoved(p) == Cardinality({i \in 1..Len(cmds.removed) : cmds.removed[i].at = p})
TimesMovedFrom(p) == Cardinality({i \in 1..Len(cmds.moved) : cmds.moved[i].from = p})
TimesMovedTo(p) == Cardinality({i \in 1..Len(cmds.moved) : cmds.moved[i].to = p})
TimesAdded(p) == Cardinality({i \in 1..Len(cmds.added) : cmds.added[i].at = p})
StaysAt(p) ==
    IF /\ p < Len(hashed_items)
       /\ p < Len(new_hashed_items)
       /\ Get(hashed_items, p) = Get(new_hashed_items, p)
    THEN 1 ELSE 0

OldPositions == 0..(Len(hashed_items) - 1)
NewPositions == 0..(Len(new_hashed_items) - 1)

\* C10 (edit-script partition), as claimed: every new position is either
\* moved to or added, exactly once.
C10_NewPositionsAsClaimed ==
    Diffed => \A q \in NewPositions : TimesMovedTo(q) + TimesAdded(q) = 1

\* C10 (edit-script partition), amended: every old position is exactly one
\* of removed, moved or unchanged, every new position is exactly one of
\* moved, added or unchanged, the lists name no position outside the
\* sequences, and no key is both removed and moved or both moved and added.
C10_Partition ==
    Diffed =>
        /\ \A p \in OldPositions :
              TimesRemoved(p) + TimesMovedFrom(p) + StaysAt(p) = 1
        /\ \A q \in NewPositions :
              TimesMovedTo(q) + TimesAdded(q) + StaysAt(q) = 1
        /\ \A i \in 1..Len(cmds.removed) : cmds.removed[i].at \in OldPositions
        /\ \A i \in 1..Len(cmds.moved) :
              /\ cmds.moved[i].from \in OldPositions
              /\ cmds.moved[i].to \in NewPositions
              /\ Get(hashed_items, cmds.moved[i].from)
                    = Get(new_hashed_items, cmds.moved[i].to)
        /\ \A i \in 1..Len(cmds.added) : cmds.added[i].at \in NewPositions
        /\ \A i \in 1..Len(cmds.moved) :
              /\ \A r \in 1..Len(cmds.removed) :
                    Get(hashed_items, cmds.removed[r].at)
                        # Get(hashed_items, cmds.moved[i].from)
              /\ \A a \in 1..Len(cmds.added) :
                    Get(new_hashed_items, cmds.added[a].at)
                        # Get(new_hashed_items, cmds.moved[i].to)

\* C10 witness: diff has produced a script with a removed, a moved and an
\* added entry for sequences that also share an unchanged position.
C10_Witness ==
    /\ pc = "diff_done"
    /\ cmds.removed # <<>>
    /\ cmds.moved # <<>>
    /\ cmds.added # <<>>
    /\ \E p \in OldPositions : StaysAt(p) = 1


\* ==================================================================
\* Item sequences with repeated keys
\* ==================================================================
\* The same list, handed item sequences in which a key may repeat.
InitDup == InitState(TRUE)

SpecDup == InitDup /\ [][Next]_vars

\* The children build or hydrate created, in the order of the items given.
FirstBuilt == pc = "idle" /\ pass = 0

\* The last of the children in `bs` that was built from an item of key k.
LastBuiltOf(bs, k) ==
    bs[CHOOSE i \in 1..Len(bs) :
          /\ bs[i].key = k
          /\ \A j \in 1..Len(bs) : bs[j].key = k => j <= i]

\* Number of slots holding a child of key k.
SlotsOf(slots, k) ==
    Cardinality({i \in 1..Len(slots) : IsSome(slots[i]) /\ Unwrap(slots[i]).key = k})

\* The item rebuild was given at (0-based) position p: still in `items`, or
\* taken by the addition at p and turned into a child.
GivenItem(p) ==
    IF IsSome(Get(items, p))
    THEN Unwrap(Get(items, p))
    ELSE LET n == built[CHOOSE i \in 1..Len(add_cmds) : add_cmds[i].at = p]
         IN  [key |-> n.key, occ |-> n.occ]

\* The highest occurrence ordinal of key k among the items given to rebuild.
LastGivenOcc(k) ==
    Max({GivenItem(p).occ : p \in {q \in 0..(Len(items) - 1) : GivenItem(q).key = k}})

\* C11 (duplicate key), as claimed: after build or hydrate every key given has
\* exactly one child, built from the last item of that key; a pass given
\* repeated keys does not panic, and when it has returned every key it built
\* a child for has exactly one child, built from the last item of that key.
C11_LaterOccurrenceWins ==
    /\ FirstBuilt =>
          \A i \in 1..Len(built) :
             /\ SlotsOf(rendered_items, built[i].key) = 1
             /\ ChildrenOf(rendered_items, built[i].key)
                   = {LastBuiltOf(built, built[i].key)}
    /\ (parent /\ ~cmds.clear) => pc # "panic"
    /\ pc = "store" =>
          \A i \in 1..Len(built) :
             /\ SlotsOf(rendered_items, built[i].key) = 1
             /\ built[i].occ = LastGivenOcc(built[i].key)


\* ==================================================================
\* Callback (leptos_reactive/src/callback.rs)
\* ==================================================================
\* Callback::new calls along one behaviour, Callback values (originals and
\* copies) in existence, and calls counted.
MaxCallbacks == 2
MaxHandles == 3
MaxCalls == 2

\* The inputs and outputs of the stored functions, and the functions.
CbIn == BOOLEAN
CbOut == BOOLEAN
Fns == [CbIn -> CbOut]

\* store_value(Box::new(f)): a new stored value; its id is its position.
store_value(st, f) == Append(st, f)

\* StoredValue::with_value(|f| ..): the stored value, borrowed.
with_value(st, id) == st[id]

\* A Callback is the (copyable) id of its stored value; `of` is the Callback
\* it was copied from, 0 for one made by Callback::new.
NewCallback(id, origin) == [value |-> id, of |-> origin]

\* Callback::new(f)
CallbackNew ==
    /\ Len(stored) < MaxCallbacks
    /\ Len(callbacks) < MaxHandles
    /\ \E f \in Fns :
          /\ stored' = store_value(stored, f)
          /\ given' = Append(given, f)
    /\ callbacks' = Append(callbacks, NewCallback(Len(stored) + 1, 0))
    /\ UNCHANGED <<last_call, keyed_vars>>

\* Clone::clone / Copy: *self
CallbackClone ==
    /\ Len(callbacks) < MaxHandles
    /\ \E h \in 1..Len(callbacks) :
          callbacks' = Append(callbacks, NewCallback(callbacks[h].value, h))
    /\ UNCHANGED <<stored, given, last_call, keyed_vars>>

\* How many calls have been made, as far as they are counted.
Calls == IF IsSome(last_call) THEN Unwrap(last_call).nth ELSE 0

\* Mutant of CallbackCall: the call leaves behind a function that returns
\* what this call returned, whatever its input.
CallbackCall_Memoises ==
    /\ Calls < MaxCalls
    /\ \E h \in 1..Len(callbacks) : \E x \in CbIn :
          LET out == with_value(stored, callbacks[h].value)[x]
          IN  /\ last_call' = Some([cb |-> h, input |-> x, out |-> out,
                                    nth |-> Calls + 1])
              /\ stored' = [stored EXCEPT ![callbacks[h].value] = [y \in CbIn |-> out]]
    /\ UNCHANGED <<callbacks, given, keyed_vars>>

\* Callable::call(&self, input): self.0.with_value(|f| f(input))
CallbackCall ==
    /\ Calls < MaxCalls
    /\ \E h \in 1..Len(callbacks) : \E x \in CbIn :
          last_call' = Some([cb |-> h, input |-> x,
                             out |-> with_value(stored, callbacks[h].value)[x],
                             nth |-> Calls + 1])
    /\ UNCHANGED <<stored, callbacks, given, keyed_vars>>

NextCb ==
    \/ CallbackNew
    \/ CallbackClone
    \/ CallbackCall

SpecCb == Init /\ [][NextCb]_vars

PendingRemovals ==
    IF pc = "remove" THEN {j \in 1..Len(cmds.removed) : j > ip} ELSE {}
PendingMoveOuts ==
    IF pc = "move_out" THEN {j \in 1..Len(move_cmds) : j > ip} ELSE {}

\* The positions at which both arrays have been resized.
AfterResize == {"move_in", "move_in_dom", "add"}

\* C13 (no out-of-bounds access), as claimed: in a pass over duplicate-free
\* sequences every removed.at and every move.from is below the length of
\* children and index_items when its command runs, and every move.to and
\* add.at is below their length (and add.at below that of items) once the
\* arrays are resized.
C13_NoOutOfBounds ==
    /\ \A j \in PendingRemovals :
          /\ InBounds(rendered_items, cmds.removed[j].at)
          /\ InBounds(index_items, cmds.removed[j].at)
    /\ \A j \in PendingMoveOuts :
          /\ InBounds(rendered_items, move_cmds[j].from)
          /\ InBounds(index_items, move_cmds[j].from)
    /\ pc \in AfterResize =>
          /\ \A j \in 1..Len(move_cmds) :
                /\ InBounds(rendered_items, move_cmds[j].to)
                /\ InBounds(index_items, move_cmds[j].to)
          /\ \A j \in 1..Len(add_cmds) :
                /\ InBounds(rendered_items, add_cmds[j].at)
                /\ InBounds(index_items, add_cmds[j].at)
                /\ InBounds(items, add_cmds[j].at)


\* The move commands whose child has been taken out and not yet placed.
AwaitingMoveIn ==
    {j \in 1..Len(moved_children) : IsSome(moved_children[j])}

\* C14 (move-out precedes move-in): no two move commands read the same
\* source slot; while the move-out loop runs the arrays have their old
\* length, a source slot not yet reached holds its old child and binding and
\* one already reached is a hole whose child and binding were pushed; once
\* the arrays are resized every move command has been taken out; and the
\* destination slot of a child that awaits its move-in is a hole.
C14_MoveOutFirst ==
    /\ pc \in AfterUnpack =>
          \A i \in 1..Len(move_cmds) : \A j \in 1..Len(move_cmds) :
             move_cmds[i].from = move_cmds[j].from => i = j
    /\ pc = "move_out" =>
          /\ Len(rendered_items) = Len(old_rendered)
          /\ Len(index_items) = Len(old_index)
          /\ Len(moved_children) = ip
          /\ Len(moved_index_items) = ip
          /\ \A j \in 1..Len(move_cmds) :
                IF j > ip
                THEN /\ Get(rendered_items, move_cmds[j].from)
                           = Get(old_rendered, move_cmds[j].from)
                     /\ IsSome(Get(rendered_items, move_cmds[j].from))
                     /\ Get(index_items, move_cmds[j].from)
                           = Get(old_index, move_cmds[j].from)
                ELSE /\ Get(rendered_items, move_cmds[j].from) = None
                     /\ Get(index_items, move_cmds[j].from) = None
                     /\ moved_children[j] = Get(old_rendered, move_cmds[j].from)
                     /\ moved_index_items[j] = Get(old_index, move_cmds[j].from)
    /\ pc \in AfterResize =>
          /\ Len(moved_children) = Len(move_cmds)
          /\ Len(moved_index_items) = Len(move_cmds)
          /\ \A j \in AwaitingMoveIn :
                /\ moved_children[j] = Get(old_rendered, move_cmds[j].from)
                /\ Get(rendered_items, move_cmds[j].to) = None
                /\ Get(index_items, move_cmds[j].to) = None

\* C14 witness: the arrays have just been resized in a pass with an addition
\* and two move commands, one of which goes to the slot the other came from.
C14_Witness ==
    /\ pc = "move_in"
    /\ ip = 0
    /\ cmds.added # <<>>
    /\ \E i \in 1..Len(move_cmds) : \E j \in 1..Len(move_cmds) :
          i # j /\ move_cmds[i].to = move_cmds[j].from


\* The arrays have been resized and no child has been moved in yet.
JustResized == pc = "move_in" /\ ip = 0

\* The slots (1-based) the resize created.
CreatedSlots == (Len(old_rendered) + 1)..Len(rendered_items)

BeforePrune == pc = "add" /\ ip = Len(add_cmds)

\* Number of holes in a slot array.
Holes(slots) == Cardinality({i \in 1..Len(slots) : slots[i] = None})

DomPos(n) == CHOOSE i \in 1..Len(dom) : dom[i] = n

\* The filled slots (0-based) after slot `at`.
FilledAfter(at) ==
    {p \in (at + 1)..(Len(rendered_items) - 1) : IsSome(Get(rendered_items, p))}

\* The node that follows the child in slot `at` when it stands right before
\* the child of the nearest filled slot after it, or before the marker.
ExpectedSuccessor(at) ==
    IF FilledAfter(at) = {} THEN Marker
    ELSE Unwrap(Get(rendered_items,
                    CHOOSE p \in FilledAfter(at) : \A q \in FilledAfter(at) : p <= q))

\* C17 (physical move placement): no child is relocated while the first
\* move-in loop runs, and when the second starts every move with
\* move_in_dom = false is in its slot; the sibling found for the next
\* relocation is mounted, is in the slot of its own key's new position and
\* that position is after the destination; and the child just relocated
\* stands in the host tree immediately before the child of the nearest
\* filled slot after its destination, or before the marker if there is none.
C17_PhysicalPlacement ==
    /\ pc = "move_in" =>
          \A o \in 1..Len(host_ops) : host_ops[o].op = "unmount"
    /\ pc = "move_in_dom" =>
          /\ \A j \in LogicalMoves :
                /\ moved_children[j] = None
                /\ Get(rendered_items, move_cmds[j].to)
                      = Get(old_rendered, move_cmds[j].from)
          /\ \A j \in PhysicalMoves :
                (j > ip) => IsSome(moved_children[j])
          /\ NextCmd(move_cmds, ip, TRUE) # 0 =>
                LET to == move_cmds[NextCmd(move_cmds, ip, TRUE)].to
                    sib == GetNextClosestMountedSibling(rendered_items, to)
                IN  IsSome(sib) =>
                       /\ Unwrap(sib) \in Range(dom)
                       /\ Unwrap(sib).key \in Range(new_hashed_items)
                       /\ IndexOfKey(new_hashed_items, Unwrap(sib).key) > to
                       /\ Get(rendered_items,
                              IndexOfKey(new_hashed_items, Unwrap(sib).key)) = sib
          /\ ip > 0 =>
                LET n == Unwrap(Get(rendered_items, move_cmds[ip].to))
                IN  /\ n \in Range(dom)
                    /\ dom[DomPos(n) + 1] = ExpectedSuccessor(move_cmds[ip].to)

\* C17 witness: in a pass with a move that only rebinds, a child has just
\* been relocated before the child of a filled slot.
C17_Witness ==
    /\ pc = "move_in_dom"
    /\ ip > 0
    /\ LogicalMoves # {}
    /\ host_ops[Len(host_ops)].op = "insert"
    /\ ExpectedSuccessor(move_cmds[ip].to) # Marker


\* ==================================================================
\* apply_diff on an edit script that need not fit the list
\* ==================================================================
\* apply_diff takes the script as a parameter and does not check it against
\* the slot arrays.  Here it runs on a mounted list of up to ScriptOld
\* children with any script of up to ScriptLen removals, moves and additions
\* over the positions 0..ScriptPos.
ScriptOld == 2
ScriptLen == 1
ScriptPos == 2

Positions == 0..ScriptPos
AnyRemoved == SeqsUpTo([at : Positions], ScriptLen)
AnyMoved == SeqsUpTo([from : Positions, to : Positions], ScriptLen)
AnyAdded == SeqsUpTo([at : Positions, mode : {"Normal", "Append"}], ScriptLen)
Scripts == [clear : BOOLEAN, removed : AnyRemoved, moved : AnyMoved, added : AnyAdded]

\* The list before the pass: built from the keys 1..n and mounted.
BuiltAndMounted(n) ==
    LET its == Items([i \in 1..n |-> i])
    IN  /\ hashed_items = HashAll(its)
        /\ rendered_items = BuiltChildren(its)
        /\ index_items = BuiltBindings(its)
        /\ dom = MountAll(BuiltChildren(its))

\* rebuild has hashed its items and calls apply_diff with some script.
InitScript ==
    /\ pc = "clear"
    /\ parent = TRUE
    /\ \E n \in 0..ScriptOld : BuiltAndMounted(n)
    /\ \E its \in {Items(t) : t \in {u \in SeqsUpTo(1..NumKeys, ScriptOld) : NoDup(u)}} :
          /\ items = [i \in 1..Len(its) |-> Some(its[i])]
          /\ new_hashed_items = HashAll(its)
    /\ cmds \in Scripts
    /\ move_cmds = <<>>
    /\ add_cmds = <<>>
    /\ moved_children = <<>>
    /\ moved_index_items = <<>>
    /\ ip = 0
    /\ pass = 1
    /\ allow_dup = FALSE
    /\ old_rendered = rendered_items
    /\ old_index = index_items
    /\ prev_new = <<>>
    /\ built = <<>>
    /\ host_ops = <<>>
    /\ writes = <<>>
    /\ NoCallbacks

NextScript ==
    \/ StepClear
    \/ StepRemove
    \/ StepUnpack
    \/ StepMoveOut
    \/ StepResize
    \/ StepMoveIn
    \/ StepMoveInDone
    \/ StepMoveInDom
    \/ StepMoveInDomDone
    \/ StepAdd
    \/ StepPrune
    \/ StepStore

SpecScript == InitScript /\ [][NextScript]_vars

\* The move commands whose source slot was a hole when it was taken.
TookHole ==
    {j \in 1..Len(moved_children) : moved_children[j] = None}

RebuildCalled == pc = "idle" /\ pass' = pass + 1

\* C19 (rebuild before mount is fatal): a call of rebuild on a list that was
\* never mounted panics before apply_diff runs and leaves the stored key
\* sequence, both slot arrays and the host tree as they were, with no child
\* built, unmounted or moved; nothing happens after the panic; and a call of
\* rebuild on a mounted list goes on to apply_diff.
C19_RebuildBeforeMount ==
    /\ [][(RebuildCalled /\ ~parent) =>
             /\ pc' = "panic"
             /\ hashed_items' = hashed_items
             /\ rendered_items' = rendered_items
             /\ index_items' = index_items
             /\ dom' = dom
             /\ built' = <<>>
             /\ host_ops' = <<>>
             /\ writes' = <<>>
             /\ moved_children' = <<>>]_vars
    /\ [][(pc = "panic" /\ ~parent) => UNCHANGED vars]_vars
    /\ [][(RebuildCalled /\ parent) => pc' = "clear"]_vars

\* C19 witness: rebuild was called with two items on a list of two children
\* that was built and never mounted.
C19_Witness ==
    /\ pc = "panic"
    /\ ~parent
    /\ pass = 1
    /\ Len(rendered_items) = 2
    /\ Len(new_hashed_items) = 2
    /\ dom = <<>>


\* The cells (by the child each came with) a binding array holds.
Cells(bindings) ==
    {Unwrap(bindings[i]).id : i \in {j \in 1..Len(bindings) : IsSome(bindings[j])}}

\* The children this pass removes: those at the removed positions, and
\* every child when the list is cleared.
RemovedChildren ==
    {Unwrap(old_rendered[i]) :
        i \in {j \in 1..Len(old_rendered) :
                  /\ IsSome(old_rendered[j])
                  /\ \/ cmds.clear
                     \/ \E r \in 1..Len(cmds.removed) : cmds.removed[r].at = j - 1}}

\* C20 (index binding lifecycle): at every point between and within passes
\* the binding stored with a child, in a slot or taken out for a move, is
\* the cell the builder returned with that child; when a pass has returned,
\* the cells it dropped are exactly those of the children it removed or
\* cleared and the cells it created are exactly those of the children it
\* built; and no write goes to the binding of a child at the index the child
\* already had.
C20_BindingLifecycle ==
    /\ pc \in InPass \cup {"idle"} =>
          /\ \A i \in 1..Len(index_items) :
                IsSome(index_items[i]) =>
                   /\ i <= Len(rendered_items)
                   /\ rendered_items[i] = Some(Unwrap(index_items[i]).id)
          /\ \A j \in 1..Len(moved_index_items) :
                IsSome(moved_index_items[j]) =>
                   Some(Unwrap(moved_index_items[j]).id)
                      = Get(old_rendered, move_cmds[j].from)
    /\ pc = "store" =>
          /\ Cells(old_index) \ Cells(index_items) = RemovedChildren
          /\ Cells(index_items) \ Cells(old_index) = Range(built)
    /\ pc \in InPass =>
          \A w \in 1..Len(writes) : \A p \in 1..Len(old_index) :
             (IsSome(old_index[p]) /\ Unwrap(old_index[p]).id = writes[w].id) =>
                /\ writes[w].val # p - 1
                /\ Unwrap(old_index[p]).val = p - 1

\* C20 witness: a second pass that removed a child, rebound one, relocated
\* one and left none in place has returned.
C20_Witness ==
    /\ pc = "store"
    /\ pass = 2
    /\ cmds.removed # <<>>
    /\ LogicalMoves # {}
    /\ PhysicalMoves # {}
    /\ Len(writes) = 2

\* ------------------------------------------------ Append and Normal
\* The add command about to be applied, and the child it will build.
AddPending == pc = "add" /\ ip < Len(add_cmds)
NextAdd == add_cmds[ip + 1]
NextAddChild == NewChild(Unwrap(Get(items, NextAdd.at)), pass)

\* C21 (Append is equivalent to Normal): when an add command with mode
\* Append is about to be applied, no slot at or after its position holds a
\* child, and mounting the new child directly before the end marker gives
\* the host tree that the Normal placement would give.
C21_AppendIsNormal ==
    (AddPending /\ NextAdd.mode = "Append") =>
        /\ InBounds(items, NextAdd.at) /\ IsSome(Get(items, NextAdd.at))
        /\ GetNextClosestMountedSibling(rendered_items, NextAdd.at) = None
        /\ AddPlace("Append", dom, rendered_items, NextAdd.at, NextAddChild)
             = AddPlace("Normal", dom, rendered_items, NextAdd.at, NextAddChild)

\* C21 witness: an Append command is about to be applied after an earlier
\* one of the same pass has put its child into the host tree.
C21_Witness ==
    /\ AddPending
    /\ ip > 0
    /\ NextAdd.mode = "Append"
    /\ \E i \in 1..Len(rendered_items) :
          IsSome(rendered_items[i]) /\ Unwrap(rendered_items[i]) \in Range(dom)
    /\ Marker \in Range(dom)

\* ------------------------------------------------ index values mid-pass
\* The move commands that relocate a child and have not been applied yet.
PendingPhysicalMoves ==
    IF pc \in {"move_out", "move_in"} THEN PhysicalMoves
    ELSE IF pc = "move_in_dom" THEN {j \in PhysicalMoves : j > ip}
    ELSE {}

\* C22 (index values at every step): at every point of a pass, after each
\* removal, move-in and add command, every child in a slot has its binding
\* in the same slot of index_items and the binding's value is the index of
\* the slot, also while relocations of the pass are still to be applied.
C22_IndexAtEveryStep ==
    pc \in InPass =>
        \A i \in 1..Len(rendered_items) :
            IsSome(rendered_items[i]) =>
                /\ i <= Len(index_items)
                /\ IsSome(index_items[i])
                /\ Unwrap(index_items[i]).id = Unwrap(rendered_items[i])
                /\ Unwrap(index_items[i]).val = i - 1

\* C22 witness: one relocation has been applied and another is pending,
\* with the relocated child in the slot it was written to.
C22_Witness ==
    /\ pc = "move_in_dom"
    /\ ip > 0
    /\ PendingPhysicalMoves # {}
    /\ IsSome(Get(rendered_items, move_cmds[ip].to))
    /\ writes # <<>>

\* ------------------------------------------------ baseline between passes
\* The keys of the latest input: of the items given to build or hydrate
\* while no pass has run, of the items given to the last rebuild afterwards.
LatestKeys ==
    IF pass = 0 THEN [i \in 1..Len(built) |-> built[i].key] ELSE prev_new

\* C23 (consistent baseline): after build, after hydrate and after every
\* completed rebuild, hashed_items is the key sequence of the latest input,
\* rendered_items and index_items are as long as hashed_items and hold no
\* None, and slot i holds the child of key i and that child's binding; a
\* pass that clears and returns early leaves both arrays empty for an empty
\* new sequence.
C23_ConsistentBaseline ==
    /\ pc = "idle" =>
          /\ hashed_items = LatestKeys
          /\ Len(rendered_items) = Len(hashed_items)
          /\ Len(index_items) = Len(hashed_items)
          /\ \A i \in 1..Len(hashed_items) :
                /\ IsSome(rendered_items[i])
                /\ IsSome(index_items[i])
                /\ Unwrap(rendered_items[i]).key = hashed_items[i]
                /\ Unwrap(index_items[i]).id = Unwrap(rendered_items[i])
    /\ (pc = "store" /\ cmds.clear) =>
          /\ rendered_items = <<>>
          /\ index_items = <<>>
          /\ new_hashed_items = <<>>

\* C23 witness: two rebuilds have completed and the list, mounted, holds two
\* children or more.
C23_Witness ==
    /\ pc = "idle"
    /\ pass = 2
    /\ Len(hashed_items) >= 2
    /\ Len(rendered_items) >= 2
    /\ parent

\* ------------------------------------------------ pruning and positions
\* The (1-based) positions of the holes of a slot array.
HolesAt(slots) == {i \in 1..Len(slots) : ~IsSome(slots[i])}

\* C24 (pruning never shifts a filled slot): when the additions are done,
\* the holes of children and of index_items are at the same positions, all
\* of them at indices greater than or equal to the length of the new key
\* sequence, so the prune step only cuts the tail: each array after pruning
\* is its own first part, and each child and binding stays at the index the
\* binding holds.
C24_PruneKeepsPositions ==
    BeforePrune =>
        /\ Len(rendered_items) = Len(index_items)
        /\ HolesAt(rendered_items) = HolesAt(index_items)
        /\ \A i \in HolesAt(rendered_items) : i - 1 >= Len(new_hashed_items)
        /\ DrainFilterNone(rendered_items)
             = SubSeq(rendered_items, 1, Len(new_hashed_items))
        /\ DrainFilterNone(index_items)
             = SubSeq(index_items, 1, Len(new_hashed_items))
        /\ \A i \in 1..Len(DrainFilterNone(index_items)) :
              /\ Unwrap(DrainFilterNone(index_items)[i]).val = i - 1
              /\ Unwrap(DrainFilterNone(index_items)[i]).id
                   = Unwrap(DrainFilterNone(rendered_items)[i])

\* C24 witness: the additions of a pass with a removal, a move and an
\* addition are done, and a hole is left behind the children.
C24_Witness ==
    /\ BeforePrune
    /\ cmds.removed # <<>>
    /\ move_cmds # <<>>
    /\ add_cmds # <<>>
    /\ HolesAt(rendered_items) # {}
    /\ new_hashed_items # <<>>

\* ==================================================================
\* Mounting and unmounting the list among other nodes
\* ==================================================================
\* The parent element holds MaxOutside nodes that do not belong to the
\* list; the list is built, mounted before one of them or at the end,
\* rebuilt up to MountPasses times, unmounted and mounted again.  No rebuild
\* is started between an unmount and the next mount.
MaxOutside == 1
MountPasses == 1

\* The nodes of the parent that are not the list's.
Outside(i) == [key |-> 0, occ |-> i, born |-> 0]
OutsideNodes == {Outside(i) : i \in 1..MaxOutside}
AllOutside == [i \in 1..MaxOutside |-> Outside(i)]

\* The reference nodes mount can be given: none, or a node of the parent.
MountRefs == {None} \cup {Some(n) : n \in OutsideNodes}

\* Mountable::mount(parent, marker) of one node: before the reference node,
\* at the end of the parent when there is none.
MountNode(d, n, ref) ==
    IF IsSome(ref) /\ Unwrap(ref) \in Range(d)
    THEN InsertBefore(d, n, Unwrap(ref))
    ELSE Append(Unmount(d, n), n)

\* Mutant of MountList: the marker is mounted first, the children after it.
MountList_MarkerFirst(d, children, ref) ==
    LET f[i \in 0..Len(children)] ==
            IF i = 0 THEN MountNode(d, Marker, ref)
            ELSE IF IsSome(children[i])
                 THEN MountNode(f[i - 1], Unwrap(children[i]), ref)
            ELSE f[i - 1]
    IN  f[Len(children)]

\* KeyedEnumerateState::mount: each filled slot in order, then the marker.
MountList(d, children, ref) ==
    LET f[i \in 0..Len(children)] ==
            IF i = 0 THEN d
            ELSE IF IsSome(children[i])
                 THEN MountNode(f[i - 1], Unwrap(children[i]), ref)
            ELSE f[i - 1]
    IN  MountNode(f[Len(children)], Marker, ref)

\* KeyedEnumerateState::unmount: each filled slot, then the marker.
UnmountList(d, children) == Unmount(UnmountAll(d, children), Marker)

InitMount ==
    /\ pc = "new"
    /\ parent = FALSE
    /\ hashed_items = <<>>
    /\ rendered_items = <<>>
    /\ index_items = <<>>
    /\ dom = AllOutside
    /\ items = <<>>
    /\ new_hashed_items = <<>>
    /\ cmds = EmptyDiff
    /\ move_cmds = <<>>
    /\ add_cmds = <<>>
    /\ moved_children = <<>>
    /\ moved_index_items = <<>>
    /\ ip = 0
    /\ pass = 0
    /\ allow_dup = FALSE
    /\ old_rendered = <<>>
    /\ old_index = <<>>
    /\ prev_new = <<>>
    /\ built = <<>>
    /\ host_ops = <<>>
    /\ writes = <<>>
    /\ NoCallbacks

\* KeyedEnumerateState::mount with a reference node
MountBefore ==
    /\ pc \in {"idle", "unmounted"}
    /\ \E ref \in MountRefs : dom' = MountList(dom, rendered_items, ref)
    /\ parent' = TRUE
    /\ pc' = "idle"
    /\ UNCHANGED <<hashed_items, rendered_items, index_items, pass_locals, ip,
                   pass, allow_dup, cb_vars, history>>

\* KeyedEnumerateState::unmount
UnmountState ==
    /\ pc = "idle"
    /\ dom' = UnmountList(dom, rendered_items)
    /\ pc' = "unmounted"
    /\ UNCHANGED <<parent, hashed_items, rendered_items, index_items, pass_locals,
                   ip, pass, allow_dup, cb_vars, history>>

RebuildMounted ==
    /\ pass < MountPasses
    /\ RebuildBegin

NextMount ==
    \/ Build
    \/ MountBefore
    \/ UnmountState
    \/ RebuildMounted
    \/ StepClear
    \/ StepRemove
    \/ StepUnpack
    \/ StepMoveOut
    \/ StepResize
    \/ StepMoveIn
    \/ StepMoveInDone
    \/ StepMoveInDom
    \/ StepMoveInDomDone
    \/ StepAdd
    \/ StepPrune
    \/ StepStore

SpecMount == InitMount /\ [][NextMount]_vars

\* The list's own nodes in the host tree, in host-tree order.
ListNodes == SelectSeq(dom, LAMBDA n : n \notin OutsideNodes)

\* The children of the filled slots, in slot order.
SlotChildren ==
    LET filled == DrainFilterNone(rendered_items)
    IN  [i \in 1..Len(filled) |-> Unwrap(filled[i])]

\* The host tree in which the list stands, children in slot order and then
\* the marker, directly before the reference node (at the end without one),
\* and the other nodes stand as they did.
MountedBefore(ref) ==
    LET p == IF IsSome(ref)
             THEN CHOOSE i \in 1..MaxOutside : AllOutside[i] = Unwrap(ref)
             ELSE MaxOutside + 1
    IN  SubSeq(AllOutside, 1, p - 1) \o SlotChildren \o <<Marker>>
           \o SubSeq(AllOutside, p, MaxOutside)

====
